---------------------------- MODULE Spec2Model ----------------------------
(***************************************************************************)
(* Channel register codec and bulk transfer of the PCA9685 driver          *)
(* (src/src/channels.rs).  The chip is a bank of 8-bit registers; every    *)
(* channel owns four of them (ON low, ON high, OFF low, OFF high).  The    *)
(* driver keeps no copy of them: every call goes to the bus.               *)
(*                                                                         *)
(* The generic register primitives (read_register, write_double_register,  *)
(* ...), enable_auto_increment, the Register address table and the chip    *)
(* itself live outside channels.rs; they are modelled from the design      *)
(* document (sections 3, 4.3 and 6).                                       *)
(***************************************************************************)
EXTENDS Integers, Sequences, FiniteSets, TLC

VARIABLES
    mem,        \* chip: register address -> byte, for the 64 channel registers
    autoInc,    \* chip: the auto-increment mode bit
    last,       \* the last call: operation, arguments, result, bus traffic
    fullOn,     \* history: channel -> flag last given to the ON register
    fullOff,    \* history: channel -> flag last given to the OFF register
    bulk,       \* history: payload of the last bulk write, <<>> once overwritten
    chan,       \* the channel this run's single-channel calls address
    callers     \* two callers sharing the chip bus step by step: their positions

vars == <<mem, autoInc, last, fullOn, fullOff, bulk, chan, callers>>

---------------------------------------------------------------------------
(* Program constants *)

\* channels.rs:15, :96  `value > 4095`
MaxCounter == 4095
\* channels.rs:139  `channels_data.len() != 32`
BulkLen == 32
\* Register::C0_ON_L, the first channel register (design document, 4.3, 6)
C0_ON_L == 6
\* Number of discrete channels C0..C15
NumChannels == 16

Channels == 0 .. (NumChannels - 1)
RegAddrs == C0_ON_L .. (C0_ON_L + 4 * NumChannels - 1)

---------------------------------------------------------------------------
(* Bounds of the model *)

\* get_pulse_length is applied to 0..MaxSample, MaxCounter-MaxSample..MaxCounter
\* and a few values in between
MaxSample == 6
\* bulk payloads are tried with lengths BulkLen-MaxLenSkew .. BulkLen+MaxLenSkew
\* (and the empty payload)
MaxLenSkew == 1

---------------------------------------------------------------------------
(* Unsigned fixed-width arithmetic, as the code computes it *)

RECURSIVE BitAnd(_, _)
BitAnd(a, b) ==
    IF a = 0 \/ b = 0 THEN 0
    ELSE (IF a % 2 = 1 /\ b % 2 = 1 THEN 1 ELSE 0) + 2 * BitAnd(a \div 2, b \div 2)

RECURSIVE BitOr(_, _)
BitOr(a, b) ==
    IF a = 0 THEN b
    ELSE IF b = 0 THEN a
    ELSE (IF a % 2 = 1 \/ b % 2 = 1 THEN 1 ELSE 0) + 2 * BitOr(a \div 2, b \div 2)

\* `x as u8`
AsU8(x) == x % 256
\* `(x as u16) << 8`
Shl8(x) == (x * 256) % 65536
\* `x >> 8` on a u16
Shr8(x) == x \div 256

\* Bit 12 of a double register, bits 13..15, and the byte halves (for stating properties)
Flag(v) == (v \div 4096) % 2 = 1
Reserved(v) == v \div 8192
Counter(v) == v % 4096


---------------------------------------------------------------------------
(* Register address table (crate::Register; design document 3, 4.1, 6):    *)
(* channel n owns ON_L, ON_H, OFF_L, OFF_H at C0_ON_L + 4n .. + 3.         *)

Cn_ON_L(n) == C0_ON_L + 4 * n
Cn_OFF_L(n) == C0_ON_L + 4 * n + 2

\* channels.rs:193  get_register_on, for the discrete channels
get_register_on(channel) == Cn_ON_L(channel)
\* get_register_off with the table shifted by one channel
get_register_off_next(channel) == Cn_OFF_L((channel + 1) % NumChannels)

\* channels.rs:201  get_register_off, for the discrete channels
get_register_off(channel) == Cn_OFF_L(channel)

---------------------------------------------------------------------------
(* The chip behind the bus (design document 3, 4.3, glossary)              *)

\* A write transaction: bytes[1] is the register pointer, the rest is data.
\* With auto-increment the pointer advances after every byte; without it
\* every byte lands in the same register.
ChipWrite(m, ai, bytes) ==
    LET p == bytes[1]
        data == Tail(bytes)
        n == Len(data)
    IN  [a \in RegAddrs |->
            IF ai
            THEN IF (a - p + 1) \in 1 .. n THEN data[a - p + 1] ELSE m[a]
            ELSE IF a = p /\ n > 0 THEN data[n] ELSE m[a]]

\* A write-then-read transaction of n bytes from register pointer p.
ChipRead(m, ai, p, n) ==
    [k \in 1 .. n |->
        LET a == IF ai THEN p + k - 1 ELSE p
        IN  IF a \in RegAddrs THEN m[a] ELSE 0]

\* The 16-bit value of the double register at address a
Word(m, a) == m[a] + 256 * m[a + 1]

---------------------------------------------------------------------------
(* Transport primitives the codec calls (design document 6): raw byte and  *)
(* word access, flag-unaware.                                              *)

read_register(m, a) == m[a]
read_double_register(m, a) == Word(m, a)
read_two_double_registers(m, a) == <<Word(m, a), Word(m, a + 2)>>
write_double_register(m, a, value) ==
    [m EXCEPT ![a] = AsU8(value), ![a + 1] = Shr8(value)]
write_two_double_registers(m, a, v0, v1) ==
    [m EXCEPT ![a] = AsU8(v0), ![a + 1] = Shr8(v0),
              ![a + 2] = AsU8(v1), ![a + 3] = Shr8(v1)]

\* One entry of the bus traffic of a call
Bus(call, reg, data, ok) == [call |-> call, reg |-> reg, data |-> data, ok |-> ok]

\* What a call leaves behind: chip state, result, returned value, bus traffic
Out(m, ai, result, ret, log) ==
    [mem |-> m, autoInc |-> ai, result |-> result, ret |-> ret, log |-> log]

WriteCalls == {"write_double_register", "write_two_double_registers", "i2c.write"}
IsWrite(e) == e.call \in WriteCalls
Writes(log) == {i \in 1 .. Len(log) : IsWrite(log[i])}

---------------------------------------------------------------------------
(* Private helpers of channels.rs.  f names the bus step that fails with a *)
(* transport error (0: none); a failed step leaves the chip as it was.     *)

\* The getter without its mask
get_double_register_without_flag_raw(m, ai, register, f) ==
    IF f = 1
    THEN Out(m, ai, "I2C", <<>>, <<Bus("read_double_register", register, <<>>, FALSE)>>)
    ELSE LET value == read_double_register(m, register)
         IN  Out(m, ai, "Ok", <<value>>,
                 <<Bus("read_double_register", register, <<value>>, TRUE)>>)

\* channels.rs:8-11
get_double_register_without_flag(m, ai, register, f) ==
    IF f = 1
    THEN Out(m, ai, "I2C", <<>>, <<Bus("read_double_register", register, <<>>, FALSE)>>)
    ELSE LET value == read_double_register(m, register)
         IN  Out(m, ai, "Ok", <<BitAnd(value, 4095)>>,
                 <<Bus("read_double_register", register, <<value>>, TRUE)>>)

\* A blind write of the counter: the flag read from the chip is dropped
MergeFlag_blind(reg_h, value) == value

\* channels.rs:19  `((reg_h & 0x10) as u16) << 8 | value`
MergeFlag(reg_h, value) == BitOr(Shl8(BitAnd(reg_h, 16)), value)

\* The setter carrying on after a failed read, with a high byte of 0
set_double_register_without_flag_ignore(m, ai, register, value, f) ==
    IF value > MaxCounter
    THEN Out(m, ai, "InvalidInputData", <<>>, <<>>)
    ELSE LET reg_h == IF f = 1 THEN 0 ELSE read_register(m, register + 1)
             merged == MergeFlag(reg_h, value)
             rd == Bus("read_register", register + 1, IF f = 1 THEN <<>> ELSE <<reg_h>>, f # 1)
         IN  IF f = 2
             THEN Out(m, ai, "I2C", <<>>,
                      <<rd, Bus("write_double_register", register, <<merged>>, FALSE)>>)
             ELSE Out(write_double_register(m, register, merged), ai, "Ok", <<>>,
                      <<rd, Bus("write_double_register", register, <<merged>>, TRUE)>>)

\* The setter validating after its read instead of before it
set_double_register_without_flag_late(m, ai, register, value, f) ==
    IF f = 1
    THEN Out(m, ai, "I2C", <<>>, <<Bus("read_register", register + 1, <<>>, FALSE)>>)
    ELSE LET reg_h == read_register(m, register + 1)
             merged == MergeFlag(reg_h, value)
             rd == Bus("read_register", register + 1, <<reg_h>>, TRUE)
         IN  IF value > MaxCounter
             THEN Out(m, ai, "InvalidInputData", <<>>, <<rd>>)
             ELSE IF f = 2
             THEN Out(m, ai, "I2C", <<>>,
                      <<rd, Bus("write_double_register", register, <<merged>>, FALSE)>>)
             ELSE Out(write_double_register(m, register, merged), ai, "Ok", <<>>,
                      <<rd, Bus("write_double_register", register, <<merged>>, TRUE)>>)

\* channels.rs:14-21
set_double_register_without_flag(m, ai, register, value, f) ==
    IF value > MaxCounter
    THEN Out(m, ai, "InvalidInputData", <<>>, <<>>)
    ELSE IF f = 1
    THEN Out(m, ai, "I2C", <<>>, <<Bus("read_register", register + 1, <<>>, FALSE)>>)
    ELSE LET reg_h == read_register(m, register + 1)
             merged == MergeFlag(reg_h, value)
             rd == Bus("read_register", register + 1, <<reg_h>>, TRUE)
         IN  IF f = 2
             THEN Out(m, ai, "I2C", <<>>,
                      <<rd, Bus("write_double_register", register, <<merged>>, FALSE)>>)
             ELSE Out(write_double_register(m, register, merged), ai, "Ok", <<>>,
                      <<rd, Bus("write_double_register", register, <<merged>>, TRUE)>>)

\* The flag byte built from scratch: the counter bits of the high byte are lost
FlagByte_scratch(reg_h, flag_value) ==
    IF flag_value /\ BitAnd(reg_h, 16) = 0 THEN <<16>>
    ELSE IF ~flag_value /\ BitAnd(reg_h, 16) # 0 THEN <<0>>
    ELSE <<>>

\* channels.rs:61-67  the byte written to the high register, <<>> when none is
FlagByte(reg_h, flag_value) ==
    IF flag_value /\ BitAnd(reg_h, 16) = 0 THEN <<BitOr(reg_h, 16)>>
    ELSE IF ~flag_value /\ BitAnd(reg_h, 16) # 0 THEN <<BitAnd(reg_h, 15)>>
    ELSE <<>>

\* channels.rs:58-68
set_register_full_flag(m, ai, register0, flag_value, f) ==
    LET register == register0 + 1
    IN  IF f = 1
        THEN Out(m, ai, "I2C", <<>>, <<Bus("read_register", register, <<>>, FALSE)>>)
        ELSE LET reg_h == read_register(m, register)
                 rd == Bus("read_register", register, <<reg_h>>, TRUE)
                 b == FlagByte(reg_h, flag_value)
             IN  IF b = <<>>
                 THEN Out(m, ai, "Ok", <<>>, <<rd>>)
                 ELSE IF f = 2
                 THEN Out(m, ai, "I2C", <<>>,
                          <<rd, Bus("i2c.write", register, <<register>> \o b, FALSE)>>)
                 ELSE Out(ChipWrite(m, ai, <<register>> \o b), ai, "Ok", <<>>,
                          <<rd, Bus("i2c.write", register, <<register>> \o b, TRUE)>>)

\* channels.rs:103-105
is_full_flag_set(value) == BitAnd(value, 4096) # 0

\* u16 subtraction and addition: the wrapped value, and whether it overflowed
\* (a panic in a build with overflow checks, a wrap in one without)
Sub16(a, b) == [val |-> (a - b) % 65536, ovf |-> a < b]
Add16(a, b) == [val |-> (a + b) % 65536, ovf |-> a + b > 65535]

\* get_pulse_length subtracting the wrong way round
get_pulse_length_swapped(on_t, off_t) ==
    IF off_t >= on_t
    THEN Sub16(on_t, off_t)
    ELSE LET d == Sub16(MaxCounter, on_t)
             s == Add16(d.val, off_t)
         IN  [val |-> s.val, ovf |-> d.ovf \/ s.ovf]

\* channels.rs:159-165
get_pulse_length(on_t, off_t) ==
    IF off_t >= on_t
    THEN Sub16(off_t, on_t)
    ELSE LET d == Sub16(MaxCounter, on_t)
             s == Add16(d.val, off_t)
         IN  [val |-> s.val, ovf |-> d.ovf \/ s.ovf]

\* The value a u16 expression evaluates to: a panic when it overflows and the
\* build checks overflow
Eval16(m, ai, x, checked, log) ==
    IF x.ovf /\ checked
    THEN Out(m, ai, "panic", <<>>, log)
    ELSE Out(m, ai, "Ok", <<x.val>>, log)

\* get_effective_pulse testing the ON flag before the OFF flag
get_effective_pulse_on_first(m, ai, channel, checked, f) ==
    LET reg == get_register_on(channel)
    IN  IF f = 1
        THEN Out(m, ai, "I2C", <<>>, <<Bus("read_two_double_registers", reg, <<>>, FALSE)>>)
        ELSE LET r == read_two_double_registers(m, reg)
                 on_t == r[1]
                 off_t == r[2]
                 log == <<Bus("read_two_double_registers", reg, r, TRUE)>>
             IN  IF is_full_flag_set(on_t) THEN Out(m, ai, "Ok", <<4095>>, log)
                 ELSE IF is_full_flag_set(off_t) THEN Out(m, ai, "Ok", <<0>>, log)
                 ELSE Eval16(m, ai, get_pulse_length(on_t, off_t), checked, log)

\* channels.rs:170-179
get_effective_pulse_out(m, ai, channel, checked, f) ==
    LET reg == get_register_on(channel)
    IN  IF f = 1
        THEN Out(m, ai, "I2C", <<>>, <<Bus("read_two_double_registers", reg, <<>>, FALSE)>>)
        ELSE LET r == read_two_double_registers(m, reg)
                 on_t == r[1]
                 off_t == r[2]
                 log == <<Bus("read_two_double_registers", reg, r, TRUE)>>
             IN  IF is_full_flag_set(off_t) THEN Out(m, ai, "Ok", <<0>>, log)
                 ELSE IF is_full_flag_set(on_t) THEN Out(m, ai, "Ok", <<4095>>, log)
                 ELSE Eval16(m, ai, get_pulse_length(on_t, off_t), checked, log)

\* set_channel_on_off keeping the flags the registers hold
set_channel_on_off_keep(m, ai, channel, on_value, off_value, f) ==
    LET reg == get_register_on(channel)
        on_m == MergeFlag(read_register(m, reg + 1), on_value % 4096)
        off_m == MergeFlag(read_register(m, reg + 3), off_value % 4096)
    IN  IF on_value > MaxCounter \/ off_value > MaxCounter
        THEN Out(m, ai, "InvalidInputData", <<>>, <<>>)
        ELSE IF f = 1
        THEN Out(m, ai, "I2C", <<>>,
                 <<Bus("write_two_double_registers", reg, <<on_m, off_m>>, FALSE)>>)
        ELSE Out(write_two_double_registers(m, reg, on_m, off_m), ai, "Ok", <<>>,
                 <<Bus("write_two_double_registers", reg, <<on_m, off_m>>, TRUE)>>)

\* set_channel_on_off validating only its first argument
set_channel_on_off_half(m, ai, channel, on_value, off_value, f) ==
    LET reg == get_register_on(channel)
    IN  IF on_value > MaxCounter
        THEN Out(m, ai, "InvalidInputData", <<>>, <<>>)
        ELSE IF f = 1
        THEN Out(m, ai, "I2C", <<>>,
                 <<Bus("write_two_double_registers", reg, <<on_value, off_value>>, FALSE)>>)
        ELSE Out(write_two_double_registers(m, reg, on_value, off_value), ai, "Ok", <<>>,
                 <<Bus("write_two_double_registers", reg, <<on_value, off_value>>, TRUE)>>)

\* channels.rs:95-100
set_channel_on_off_out(m, ai, channel, on_value, off_value, f) ==
    LET reg == get_register_on(channel)
    IN  IF on_value > MaxCounter \/ off_value > MaxCounter
        THEN Out(m, ai, "InvalidInputData", <<>>, <<>>)
        ELSE IF f = 1
        THEN Out(m, ai, "I2C", <<>>,
                 <<Bus("write_two_double_registers", reg, <<on_value, off_value>>, FALSE)>>)
        ELSE Out(write_two_double_registers(m, reg, on_value, off_value), ai, "Ok", <<>>,
                 <<Bus("write_two_double_registers", reg, <<on_value, off_value>>, TRUE)>>)

\* channels.rs:108-110
get_channel_on_off_with_flags_out(m, ai, channel, f) ==
    LET reg == get_register_on(channel)
    IN  IF f = 1
        THEN Out(m, ai, "I2C", <<>>, <<Bus("read_two_double_registers", reg, <<>>, FALSE)>>)
        ELSE LET r == read_two_double_registers(m, reg)
             IN  Out(m, ai, "Ok", r, <<Bus("read_two_double_registers", reg, r, TRUE)>>)

---------------------------------------------------------------------------
(* Bulk transfer *)

\* enable_auto_increment (design document 6): sets the chip's mode bit
enable_auto_increment(ai) == TRUE

\* The u16 a target reads from two adjacent bytes of memory
NativeU16(b0, b1, bigEndian) == IF bigEndian THEN b0 * 256 + b1 ELSE b0 + b1 * 256
\* u16::from_le: the identity on a little-endian target, a byte swap on a big-endian one
FromLe(v, bigEndian) == IF bigEndian THEN (v % 256) * 256 + v \div 256 ELSE v

\* The aliased buffer read as the target's own u16, without u16::from_le
DecodeAll_native(bytes, bigEndian) ==
    [i \in 1 .. BulkLen |-> NativeU16(bytes[2 * i - 1], bytes[2 * i], bigEndian)]

\* channels.rs:130  the bytes read into the aliased buffer, decoded
DecodeAll(bytes, bigEndian) ==
    [i \in 1 .. BulkLen |->
        FromLe(NativeU16(bytes[2 * i - 1], bytes[2 * i], bigEndian), bigEndian)]

\* The bulk read going on to its data transaction whatever the enable returned
get_all_channels_on_off_with_flags_anyway(m, ai, bigEndian, f) ==
    LET en == Bus("enable_auto_increment", 0, <<>>, f # 1)
        reg == get_register_on(0)
        ai2 == IF f = 1 THEN ai ELSE enable_auto_increment(ai)
    IN  IF f = 2
        THEN Out(m, ai2, "I2C", <<>>, <<en, Bus("i2c.write_read", reg, <<>>, FALSE)>>)
        ELSE LET bytes == ChipRead(m, ai2, reg, 2 * BulkLen)
             IN  Out(m, ai2, "Ok", DecodeAll(bytes, bigEndian),
                     <<en, Bus("i2c.write_read", reg, bytes, TRUE)>>)

\* channels.rs:114-132
get_all_channels_on_off_with_flags_out(m, ai, bigEndian, f) ==
    LET en == Bus("enable_auto_increment", 0, <<>>, f # 1)
        reg == get_register_on(0)
    IN  IF f = 1
        THEN Out(m, ai, "I2C", <<>>, <<en>>)
        ELSE LET ai2 == enable_auto_increment(ai)
             IN  IF f = 2
                 THEN Out(m, ai2, "I2C", <<>>, <<en, Bus("i2c.write_read", reg, <<>>, FALSE)>>)
                 ELSE LET bytes == ChipRead(m, ai2, reg, 2 * BulkLen)
                      IN  Out(m, ai2, "Ok", DecodeAll(bytes, bigEndian),
                              <<en, Bus("i2c.write_read", reg, bytes, TRUE)>>)

\* The frame with every value sent high byte first
Frame_be(channels_data) ==
    [k \in 1 .. (2 * BulkLen + 1) |->
        IF k = 1 THEN get_register_on(0)
        ELSE LET i == (k - 2) \div 2
                 s == channels_data[i + 1]
             IN  IF (k - 2) % 2 = 0 THEN AsU8(Shr8(s)) ELSE AsU8(s)]

\* channels.rs:143-148  the 65-byte frame
Frame(channels_data) ==
    [k \in 1 .. (2 * BulkLen + 1) |->
        IF k = 1 THEN get_register_on(0)
        ELSE LET i == (k - 2) \div 2
                 s == channels_data[i + 1]
             IN  IF (k - 2) % 2 = 0 THEN AsU8(s) ELSE AsU8(Shr8(s))]

\* The bulk write rejecting only payloads that are too short
set_all_channels_on_off_with_flags_short(m, ai, channels_data, f) ==
    IF Len(channels_data) < BulkLen
    THEN Out(m, ai, "InvalidInputData", <<>>, <<>>)
    ELSE LET data == Frame(channels_data)
             en == Bus("enable_auto_increment", 0, <<>>, f # 1)
         IN  IF f = 1
             THEN Out(m, ai, "I2C", <<>>, <<en>>)
             ELSE LET ai2 == enable_auto_increment(ai)
                  IN  IF f = 2
                      THEN Out(m, ai2, "I2C", <<>>, <<en, Bus("i2c.write", data[1], data, FALSE)>>)
                      ELSE Out(ChipWrite(m, ai2, data), ai2, "Ok", <<>>,
                               <<en, Bus("i2c.write", data[1], data, TRUE)>>)

\* channels.rs:138-154
set_all_channels_on_off_with_flags_out(m, ai, channels_data, f) ==
    IF Len(channels_data) # BulkLen
    THEN Out(m, ai, "InvalidInputData", <<>>, <<>>)
    ELSE LET data == Frame(channels_data)
             en == Bus("enable_auto_increment", 0, <<>>, f # 1)
         IN  IF f = 1
             THEN Out(m, ai, "I2C", <<>>, <<en>>)
             ELSE LET ai2 == enable_auto_increment(ai)
                  IN  IF f = 2
                      THEN Out(m, ai2, "I2C", <<>>, <<en, Bus("i2c.write", data[1], data, FALSE)>>)
                      ELSE Out(ChipWrite(m, ai2, data), ai2, "Ok", <<>>,
                               <<en, Bus("i2c.write", data[1], data, TRUE)>>)

---------------------------------------------------------------------------
(* Inputs *)

\* The channels the single-channel calls are made on: the first and the last.
\* A run addresses one of them (chan); the other fifteen are watched.
TestChannels == {0, NumChannels - 1}
\* Counter arguments: in range (all bits clear, all bits set) and out of range
CounterArgs == {0, MaxCounter, MaxCounter + 1, 65535}
\* ON/OFF argument pairs of set_channel_on_off: both in range, one or both out
OnOffArgs ==
    {<<0, MaxCounter>>, <<MaxCounter, 291>>, <<MaxCounter + 1, 0>>,
     <<0, MaxCounter + 1>>, <<65535, MaxCounter>>, <<MaxCounter + 1, 65535>>}
\* ON/OFF double-register values a chip may hold at the start: clear; flag set
\* with a counter (0x1ABC) beside reserved bits set (0xE123); all bits set
InitPairs == {<<0, 0>>, <<6844, 57635>>, <<57635, 6844>>, <<65535, 65535>>}

\* A bulk payload of n values: seed + i * step, as u16
Payload(seed, step, n) == [i \in 1 .. n |-> (seed + i * step) % 65536]
PayloadLens == {0} \cup ((BulkLen - MaxLenSkew) .. (BulkLen + MaxLenSkew))
Payloads ==
    {Payload(0, 4951, n) : n \in PayloadLens} \cup {Payload(65535, 0, n) : n \in PayloadLens}

\* Arguments of get_pulse_length: both ends of the counter range, the values of
\* the documented examples, and values beyond 12 bits
PulseSamples ==
    (0 .. MaxSample) \cup {100, 2000, 2047, 2048, 4000}
        \cup ((MaxCounter - MaxSample) .. MaxCounter) \cup {MaxCounter + 1, 8192, 65535}

\* Raw double-register values: a counter with every choice of bits 12..15
RawSamples == {c + 4096 * h : c \in {0, 1, 100, 2000, 4000, MaxCounter}, h \in {0, 1, 2, 3, 14, 15}}

\* The chip with every channel's ON register holding a and OFF register holding b
Image(a, b) ==
    [r \in RegAddrs |->
        LET k == (r - C0_ON_L) % 4
        IN  IF k = 0 THEN a % 256
            ELSE IF k = 1 THEN a \div 256
            ELSE IF k = 2 THEN b % 256
            ELSE b \div 256]

\* The double registers of a channel, as the chip holds them
OnReg(m, ch) == Word(m, Cn_ON_L(ch))
OffReg(m, ch) == Word(m, Cn_OFF_L(ch))

---------------------------------------------------------------------------
(* State machine: one action per public method, run to completion *)

Call(op, ch, args, flag, out) ==
    [op |-> op, ch |-> ch, args |-> args, flag |-> flag,
     result |-> out.result, ret |-> out.ret, log |-> out.log]

\* The bulk payload is remembered until a call issues another write
KeepBulk(out) == IF Writes(out.log) = {} THEN bulk ELSE <<>>

\* Every call runs to completion: nobody is between two bus steps
NoCallers == [pcA |-> "idle", pcB |-> "idle", value |-> 0, flag |-> FALSE,
              reg_hA |-> 0, reg_hB |-> 0, order |-> <<>>]

\* A freshly constructed driver on a chip whose channels hold (a, b)
InitWith(a, b) ==
    /\ mem = Image(a, b)
    /\ fullOn = [c \in Channels |-> Flag(a)]
    /\ fullOff = [c \in Channels |-> Flag(b)]
    /\ autoInc \in BOOLEAN
    /\ last = [op |-> "new", ch |-> 0, args |-> <<>>, flag |-> FALSE,
               result |-> "Ok", ret |-> <<>>, log |-> <<>>]
    /\ bulk = <<>>
    /\ chan \in TestChannels
    /\ callers = NoCallers

Init == \E p \in InitPairs : InitWith(p[1], p[2])

get_channel_on(channel, f) ==
    LET out == get_double_register_without_flag(mem, autoInc, get_register_on(channel), f)
    IN  /\ last' = Call("get_channel_on", channel, <<>>, FALSE, out)
        /\ UNCHANGED <<mem, autoInc, fullOn, fullOff, bulk, chan, callers>>

set_channel_on(channel, value, f) ==
    LET out == set_double_register_without_flag(mem, autoInc, get_register_on(channel), value, f)
    IN  /\ mem' = out.mem
        /\ last' = Call("set_channel_on", channel, <<value>>, FALSE, out)
        /\ bulk' = KeepBulk(out)
        /\ UNCHANGED <<autoInc, fullOn, fullOff, chan, callers>>

get_channel_off(channel, f) ==
    LET out == get_double_register_without_flag(mem, autoInc, get_register_off(channel), f)
    IN  /\ last' = Call("get_channel_off", channel, <<>>, FALSE, out)
        /\ UNCHANGED <<mem, autoInc, fullOn, fullOff, bulk, chan, callers>>

set_channel_off(channel, value, f) ==
    LET out == set_double_register_without_flag(mem, autoInc, get_register_off(channel), value, f)
    IN  /\ mem' = out.mem
        /\ last' = Call("set_channel_off", channel, <<value>>, FALSE, out)
        /\ bulk' = KeepBulk(out)
        /\ UNCHANGED <<autoInc, fullOn, fullOff, chan, callers>>

set_channel_full_on(channel, flag_value, f) ==
    LET out == set_register_full_flag(mem, autoInc, get_register_on(channel), flag_value, f)
    IN  /\ mem' = out.mem
        /\ last' = Call("set_channel_full_on", channel, <<>>, flag_value, out)
        /\ fullOn' = IF out.result = "Ok" THEN [fullOn EXCEPT ![channel] = flag_value] ELSE fullOn
        /\ bulk' = KeepBulk(out)
        /\ UNCHANGED <<autoInc, fullOff, chan, callers>>

set_channel_full_off(channel, flag_value, f) ==
    LET out == set_register_full_flag(mem, autoInc, get_register_off(channel), flag_value, f)
    IN  /\ mem' = out.mem
        /\ last' = Call("set_channel_full_off", channel, <<>>, flag_value, out)
        /\ fullOff' = IF out.result = "Ok" THEN [fullOff EXCEPT ![channel] = flag_value] ELSE fullOff
        /\ bulk' = KeepBulk(out)
        /\ UNCHANGED <<autoInc, fullOn, chan, callers>>

set_channel_on_off(channel, on_value, off_value, f) ==
    LET out == set_channel_on_off_out(mem, autoInc, channel, on_value, off_value, f)
    IN  /\ mem' = out.mem
        /\ last' = Call("set_channel_on_off", channel, <<on_value, off_value>>, FALSE, out)
        /\ fullOn' = IF out.result = "Ok" THEN [fullOn EXCEPT ![channel] = Flag(on_value)] ELSE fullOn
        /\ fullOff' = IF out.result = "Ok" THEN [fullOff EXCEPT ![channel] = Flag(off_value)] ELSE fullOff
        /\ bulk' = KeepBulk(out)
        /\ UNCHANGED <<autoInc, chan, callers>>

get_channel_on_off_with_flags(channel, f) ==
    LET out == get_channel_on_off_with_flags_out(mem, autoInc, channel, f)
    IN  /\ last' = Call("get_channel_on_off_with_flags", channel, <<>>, FALSE, out)
        /\ UNCHANGED <<mem, autoInc, fullOn, fullOff, bulk, chan, callers>>

get_all_channels_on_off_with_flags(bigEndian, f) ==
    LET out == get_all_channels_on_off_with_flags_out(mem, autoInc, bigEndian, f)
    IN  /\ autoInc' = out.autoInc
        /\ last' = Call("get_all_channels_on_off_with_flags", 0, <<>>, bigEndian, out)
        /\ UNCHANGED <<mem, fullOn, fullOff, bulk, chan, callers>>

set_all_channels_on_off_with_flags(channels_data, f) ==
    LET out == set_all_channels_on_off_with_flags_out(mem, autoInc, channels_data, f)
    IN  /\ mem' = out.mem
        /\ autoInc' = out.autoInc
        /\ last' = Call("set_all_channels_on_off_with_flags", 0, channels_data, FALSE, out)
        /\ fullOn' = IF out.result = "Ok"
                     THEN [c \in Channels |-> Flag(channels_data[2 * c + 1])] ELSE fullOn
        /\ fullOff' = IF out.result = "Ok"
                      THEN [c \in Channels |-> Flag(channels_data[2 * c + 2])] ELSE fullOff
        /\ bulk' = IF out.result = "Ok" THEN channels_data ELSE KeepBulk(out)
        /\ UNCHANGED <<chan, callers>>

get_effective_pulse(channel, checked, f) ==
    LET out == get_effective_pulse_out(mem, autoInc, channel, checked, f)
    IN  /\ last' = Call("get_effective_pulse", channel, <<>>, checked, out)
        /\ UNCHANGED <<mem, autoInc, fullOn, fullOff, bulk, chan, callers>>

get_pulse_length_call(on_t, off_t, checked) ==
    LET out == Eval16(mem, autoInc, get_pulse_length(on_t, off_t), checked, <<>>)
    IN  /\ last' = Call("get_pulse_length", 0, <<on_t, off_t>>, checked, out)
        /\ UNCHANGED <<mem, autoInc, fullOn, fullOff, bulk, chan, callers>>

---------------------------------------------------------------------------
(* Workloads *)

\* The flag-preserving setters of one register
FlagSetters ==
    \/ \E v \in CounterArgs, f \in 0 .. 2 : set_channel_on(chan, v, f)
    \/ \E v \in CounterArgs, f \in 0 .. 2 : set_channel_off(chan, v, f)
    \/ \E b \in BOOLEAN, f \in 0 .. 2 : set_channel_full_on(chan, b, f)
    \/ \E b \in BOOLEAN, f \in 0 .. 2 : set_channel_full_off(chan, b, f)

\* The other single-channel calls
ChannelCalls ==
    \/ \E f \in 0 .. 1 : get_channel_on(chan, f)
    \/ \E f \in 0 .. 1 : get_channel_off(chan, f)
    \/ \E a \in OnOffArgs, f \in 0 .. 1 : set_channel_on_off(chan, a[1], a[2], f)
    \/ \E f \in 0 .. 1 : get_channel_on_off_with_flags(chan, f)

\* The bulk transfers
BulkCalls ==
    \/ \E be \in BOOLEAN, f \in 0 .. 2 : get_all_channels_on_off_with_flags(be, f)
    \/ \E d \in Payloads, f \in 0 .. 2 : set_all_channels_on_off_with_flags(d, f)

PulseCalls ==
    \E k \in BOOLEAN, f \in 0 .. 1 : get_effective_pulse(chan, k, f)

\* Every method of the driver, in any order
Next == FlagSetters \/ ChannelCalls \/ BulkCalls \/ PulseCalls
    \/ \E on_t \in {100, 4000}, off_t \in {100, 2000} : get_pulse_length_call(on_t, off_t, FALSE)

Spec == Init /\ [][Next]_vars

\* Only the four flag-preserving setters are called
SpecFlags == Init /\ [][FlagSetters]_vars

\* Only single-channel calls are made
NextCodec == FlagSetters \/ ChannelCalls
SpecCodec == Init /\ [][NextCodec]_vars

\* Bulk transfers, a raw read-back and one overwriting single-channel call
NextBulk ==
    \/ BulkCalls
    \/ \E f \in 0 .. 1 : get_channel_on_off_with_flags(chan, f)
    \/ \E b \in BOOLEAN, f \in 0 .. 2 : set_channel_full_on(chan, b, f)
SpecBulk == Init /\ [][NextBulk]_vars

\* get_pulse_length as a pure function of its two arguments
InitPulse == InitWith(0, 0) /\ autoInc = FALSE /\ chan = 0
NextPulse ==
    \E on_t \in PulseSamples, off_t \in PulseSamples, k \in BOOLEAN :
        get_pulse_length_call(on_t, off_t, k)
SpecPulse == InitPulse /\ [][NextPulse]_vars

\* get_effective_pulse on every pair of raw register values
InitEffective == \E a \in RawSamples, b \in RawSamples : InitWith(a, b) /\ autoInc = FALSE
SpecEffective == InitEffective /\ [][PulseCalls]_vars

---------------------------------------------------------------------------
(* Properties *)

\* The single-channel call being completed by a step, and the target it names
Done(op) == last'.op = op /\ last'.result = "Ok"
SameChip == mem' = mem /\ autoInc' = autoInc

\* C1: under the four flag-preserving setters, bit 12 of every channel's ON
\* register is the flag last given by a successful set_channel_full_on on that
\* channel (the initial bit if none), and likewise OFF and set_channel_full_off:
\* counter writes never change it.
C1_FlagKept ==
    \A c \in Channels :
        /\ Flag(OnReg(mem, c)) = fullOn[c]
        /\ Flag(OffReg(mem, c)) = fullOff[c]

\* A counter written under a flag that set_channel_full_on set on a chip that
\* started all clear.
C1_Witness ==
    /\ last.op = "set_channel_on" /\ last.result = "Ok" /\ last.args = <<MaxCounter>>
    /\ OnReg(mem, last.ch) = 4096 + MaxCounter
    /\ \A c \in Channels \ {last.ch} : OnReg(mem, c) = 0 /\ OffReg(mem, c) = 0

\* C2: a successful set_channel_on(ch, v) leaves bit 12 of the ON register as it
\* was, and a successful get_channel_on(ch) right after it returns exactly v and
\* leaves the chip alone; the same for set_channel_off / get_channel_off.
C2_RoundTrip ==
    [][ /\ Done("set_channel_on") =>
            Flag(OnReg(mem', last'.ch)) = Flag(OnReg(mem, last'.ch))
        /\ Done("set_channel_off") =>
            Flag(OffReg(mem', last'.ch)) = Flag(OffReg(mem, last'.ch))
        /\ (last.op = "set_channel_on" /\ last.result = "Ok"
                /\ Done("get_channel_on") /\ last'.ch = last.ch) =>
            (last'.ret = last.args /\ SameChip)
        /\ (last.op = "set_channel_off" /\ last.result = "Ok"
                /\ Done("get_channel_off") /\ last'.ch = last.ch) =>
            (last'.ret = last.args /\ SameChip)
      ]_vars

\* get_channel_on returns 0 from a register that started as 0x1ABC and now holds
\* 0x1000: the counter was set to 0 under the flag and read back.
C2_Witness ==
    /\ last.op = "get_channel_on" /\ last.result = "Ok" /\ last.ret = <<0>>
    /\ OnReg(mem, last.ch) = 4096
    /\ \A c \in Channels \ {last.ch} : OnReg(mem, c) = 6844

\* C3: set_channel_on and set_channel_off with a value above 4095 return
\* InvalidInputData, issue no bus operation and leave the chip as it was.
C3_InvalidCounter ==
    [][ (last'.op \in {"set_channel_on", "set_channel_off"} /\ last'.args[1] > MaxCounter) =>
            (last'.result = "InvalidInputData" /\ last'.log = <<>> /\ SameChip)
      ]_vars

C3_Witness ==
    /\ last.op = "set_channel_off" /\ last.args = <<MaxCounter + 1>>
    /\ last.result = "InvalidInputData" /\ last.log = <<>>

\* C4: a successful set_channel_full_on / set_channel_full_off with the flag the
\* register already has issues no write and leaves the chip as it was; with the
\* other flag it issues exactly one write, of one byte to the register's high
\* byte, after which bit 12 is the flag given while the low byte and counter
\* bits 8..11 are as before.
FlagStepOk(op, reg(_)) ==
    Done(op) =>
        LET lo == reg(last'.ch)
            old == Word(mem, lo)
            new == Word(mem', lo)
            w == Writes(last'.log)
        IN  IF last'.flag = Flag(old)
            THEN w = {} /\ SameChip
            ELSE /\ Cardinality(w) = 1
                 /\ \A i \in w : /\ last'.log[i].call = "i2c.write"
                                 /\ Len(last'.log[i].data) = 2
                                 /\ last'.log[i].data[1] = lo + 1
                 /\ Flag(new) = last'.flag
                 /\ mem'[lo] = mem[lo]
                 /\ Counter(new) = Counter(old)

C4_FlagWrite ==
    [][ /\ FlagStepOk("set_channel_full_on", get_register_on)
        /\ FlagStepOk("set_channel_full_off", get_register_off)
      ]_vars

\* The flag set on an ON register that held 0xE123: one write, now 0xF123.
C4_Witness ==
    /\ last.op = "set_channel_full_on" /\ last.result = "Ok" /\ last.flag
    /\ Cardinality(Writes(last.log)) = 1
    /\ OnReg(mem, last.ch) = 61731
    /\ \A c \in Channels \ {last.ch} : OnReg(mem, c) = 57635

\* C5: after a successful set_channel_on_off(ch, on_value, off_value) the ON
\* register of ch is on_value and its OFF register is off_value, as full 16-bit
\* values: both bit-12 flags are clear whatever the registers held.
C5_OnOffOverwrites ==
    (last.op = "set_channel_on_off" /\ last.result = "Ok") =>
        /\ OnReg(mem, last.ch) = last.args[1]
        /\ OffReg(mem, last.ch) = last.args[2]
        /\ ~Flag(OnReg(mem, last.ch)) /\ ~Flag(OffReg(mem, last.ch))

\* set_channel_on_off on a chip whose registers all started as 0xFFFF.
C5_Witness ==
    /\ last.op = "set_channel_on_off" /\ last.result = "Ok"
    /\ OnReg(mem, last.ch) = MaxCounter /\ OffReg(mem, last.ch) = 291
    /\ \A c \in Channels \ {last.ch} : OnReg(mem, c) = 65535 /\ OffReg(mem, c) = 65535

\* C6: get_effective_pulse applies full-off > full-on > counted pulse to the raw
\* register pair it reads: with bit 12 of the OFF register set the result is 0
\* whatever the ON register holds; otherwise with bit 12 of the ON register set
\* it is 4095; with both clear it is what get_pulse_length makes of the pair.
C6_Precedence ==
    (last.op = "get_effective_pulse" /\ last.result # "I2C") =>
        LET on_t == OnReg(mem, last.ch)
            off_t == OffReg(mem, last.ch)
        IN  IF Flag(off_t) THEN last.result = "Ok" /\ last.ret = <<0>>
            ELSE IF Flag(on_t) THEN last.result = "Ok" /\ last.ret = <<4095>>
            ELSE \/ last.result = "panic"
                 \/ last.result = "Ok" /\ last.ret = <<get_pulse_length(on_t, off_t).val>>

\* Both flags set, counters that would give 1900: the result is 0.
C6_Witness ==
    /\ last.op = "get_effective_pulse" /\ last.result = "Ok" /\ last.ret = <<0>>
    /\ OnReg(mem, last.ch) = 4096 + 100
    /\ OffReg(mem, last.ch) = 4096 + 2000

\* C7: for on_t and off_t in 0..4095 get_pulse_length returns off_t - on_t when
\* off_t >= on_t and 4095 - on_t + off_t otherwise, a value in 0..4095, and no
\* step of the u16 computation overflows (no panic in a checked build).
C7_PulseLength ==
    (last.op = "get_pulse_length" /\ last.args[1] <= MaxCounter /\ last.args[2] <= MaxCounter) =>
        LET on_t == last.args[1]
            off_t == last.args[2]
        IN  /\ last.result = "Ok"
            /\ last.ret = <<IF off_t >= on_t THEN off_t - on_t ELSE 4095 - on_t + off_t>>
            /\ last.ret[1] \in 0 .. 4095
            /\ ~get_pulse_length(on_t, off_t).ovf
            /\ (on_t = 100 /\ off_t = 2000) => last.ret = <<1900>>
            /\ (on_t = 4000 /\ off_t = 100) => last.ret = <<195>>

\* The wraparound example, in a build that checks overflow.
C7_Witness ==
    /\ last.op = "get_pulse_length" /\ last.flag
    /\ last.args = <<4000, 100>> /\ last.result = "Ok" /\ last.ret = <<195>>

\* C8: set_all_channels_on_off_with_flags with a payload of any length but 32
\* returns InvalidInputData and performs no bus operation: no auto-increment
\* enable, no data write, every chip register unchanged.
C8_BulkLength ==
    [][ (last'.op = "set_all_channels_on_off_with_flags" /\ Len(last'.args) # BulkLen) =>
            (last'.result = "InvalidInputData" /\ last'.log = <<>> /\ SameChip)
      ]_vars

\* A payload one value too long, refused on a chip with auto-increment off.
C8_Witness ==
    /\ last.op = "set_all_channels_on_off_with_flags" /\ Len(last.args) = BulkLen + 1
    /\ last.result = "InvalidInputData" /\ ~autoInc

\* C9: a successful get_all_channels_on_off_with_flags that follows a successful
\* set_all_channels_on_off_with_flags(d) with no write in between returns d,
\* element by element, on a target of either byte order.
C9_BulkRoundTrip ==
    (last.op = "get_all_channels_on_off_with_flags" /\ last.result = "Ok" /\ bulk # <<>>) =>
        last.ret = bulk

\* The ramp payload read back on a big-endian target.
C9_Witness ==
    /\ last.op = "get_all_channels_on_off_with_flags" /\ last.result = "Ok" /\ last.flag
    /\ bulk = Payload(0, 4951, BulkLen)
    /\ last.ret[BulkLen] = 27360

\* C10: set_channel_on_off with on_value > 4095 or off_value > 4095 returns
\* InvalidInputData, issues no bus operation and writes neither register, also
\* when only one of the two values is out of range.
C10_InvalidOnOff ==
    [][ (last'.op = "set_channel_on_off"
            /\ (last'.args[1] > MaxCounter \/ last'.args[2] > MaxCounter)) =>
            (last'.result = "InvalidInputData" /\ last'.log = <<>> /\ SameChip)
      ]_vars

\* Only the OFF value out of range.
C10_Witness ==
    /\ last.op = "set_channel_on_off" /\ last.args = <<0, MaxCounter + 1>>
    /\ last.result = "InvalidInputData" /\ last.log = <<>>

\* C11: for on_t and off_t in 0..4095 get_pulse_length is the subtraction of
\* the counters modulo the period of 4096 ticks, (off_t - on_t) mod 4096, also
\* when off_t < on_t.
C11_Modular ==
    (last.op = "get_pulse_length" /\ last.result = "Ok"
        /\ last.args[1] <= MaxCounter /\ last.args[2] <= MaxCounter) =>
        last.ret = <<(last.args[2] - last.args[1]) % 4096>>

\* C12: set_channel_on, set_channel_off, set_channel_full_on and
\* set_channel_full_off leave bits 13..15 of the register they target as they
\* were before the call.
ReservedKept(op, reg(_)) ==
    Done(op) => Reserved(Word(mem', reg(last'.ch))) = Reserved(Word(mem, reg(last'.ch)))

C12_ReservedKept ==
    [][ /\ ReservedKept("set_channel_on", get_register_on)
        /\ ReservedKept("set_channel_off", get_register_off)
        /\ ReservedKept("set_channel_full_on", get_register_on)
        /\ ReservedKept("set_channel_full_off", get_register_off)
      ]_vars

\* C13: with bit 12 of both registers clear, get_effective_pulse returns
\* get_pulse_length of the two 12-bit counters, a value in 0..4095, and its u16
\* computation does not overflow, whatever bits 13..15 hold.
C13_CountersAlone ==
    (last.op = "get_effective_pulse" /\ last.result # "I2C"
        /\ ~Flag(OnReg(mem, last.ch)) /\ ~Flag(OffReg(mem, last.ch))) =>
        LET p == get_pulse_length(Counter(OnReg(mem, last.ch)), Counter(OffReg(mem, last.ch)))
        IN  /\ last.result = "Ok"
            /\ last.ret = <<p.val>>
            /\ last.ret[1] \in 0 .. 4095

\* Bulk transfers and raw read-backs of any channel
NextSlots ==
    \/ BulkCalls
    \/ \E c \in Channels, f \in 0 .. 1 : get_channel_on_off_with_flags(c, f)
SpecSlots == Init /\ [][NextSlots]_vars

\* C14: after a successful set_all_channels_on_off_with_flags(d) and no write
\* since, get_channel_on_off_with_flags(channel i) returns (d[2i], d[2i+1]) for
\* every i in 0..15; the payload goes out as one write of 65 bytes: the
\* channel-0 ON-low address, then the low and the high byte of each value.
C14_SlotOrder ==
    /\ (last.op = "get_channel_on_off_with_flags" /\ last.result = "Ok" /\ bulk # <<>>) =>
            last.ret = <<bulk[2 * last.ch + 1], bulk[2 * last.ch + 2]>>
    /\ (last.op = "set_all_channels_on_off_with_flags" /\ Len(last.log) = 2) =>
            LET d == last.args
                data == last.log[2].data
            IN  /\ Writes(last.log) = {2}
                /\ last.log[2].call = "i2c.write"
                /\ Len(data) = 65
                /\ data[1] = Cn_ON_L(0)
                /\ \A k \in 0 .. 31 :
                        /\ data[1 + (1 + 2 * k)] = d[k + 1] % 256
                        /\ data[1 + (2 + 2 * k)] = d[k + 1] \div 256

\* Channel 15 read back after the ramp payload: its values 31 and 32.
C14_Witness ==
    /\ last.op = "get_channel_on_off_with_flags" /\ last.result = "Ok" /\ last.ch = 15
    /\ bulk = Payload(0, 4951, BulkLen)
    /\ last.ret = <<22409, 27360>>

\* Register::ALL_C_ON_L, the first register of the broadcast slot
ALL_C_ON_L == 250

BulkOps == {"get_all_channels_on_off_with_flags", "set_all_channels_on_off_with_flags"}
DataCalls == {"i2c.write", "i2c.write_read"}

\* C15: a bulk read, and a bulk write of 32 values, first issue the
\* auto-increment enable and then one data transaction of 64 data bytes at the
\* channel-0 ON-low address, never at the broadcast address; if the enable
\* fails the data transaction is not issued.
C15_EnableFirst ==
    (last.op \in BulkOps /\ last.result # "InvalidInputData") =>
        /\ Len(last.log) \in 1 .. 2
        /\ last.log[1].call = "enable_auto_increment"
        /\ ~last.log[1].ok => (Len(last.log) = 1 /\ last.result = "I2C")
        /\ last.log[1].ok => Len(last.log) = 2
        /\ \A i \in 1 .. Len(last.log) :
                last.log[i].call \in DataCalls =>
                    /\ i = 2 /\ last.log[1].ok /\ autoInc
                    /\ last.log[i].reg = Cn_ON_L(0)
                    /\ last.log[i].reg # ALL_C_ON_L
                    /\ last.log[i].ok =>
                        Len(last.log[i].data) = IF last.log[i].call = "i2c.write" THEN 65 ELSE 64
                    /\ (last.log[i].call = "i2c.write" => last.log[i].data[1] = Cn_ON_L(0))

\* A bulk read whose enable failed on a chip with auto-increment off.
C15_Witness ==
    /\ last.op = "get_all_channels_on_off_with_flags" /\ last.result = "I2C"
    /\ Len(last.log) = 1 /\ ~last.log[1].ok /\ ~autoInc

\* Every method, each bus step of it failing or not, with one argument each
NextFaults ==
    \/ \E f \in 0 .. 1 : get_channel_on(chan, f)
    \/ \E f \in 0 .. 1 : get_channel_off(chan, f)
    \/ \E f \in 0 .. 2 : set_channel_on(chan, 291, f)
    \/ \E f \in 0 .. 2 : set_channel_off(chan, 291, f)
    \/ \E b \in BOOLEAN, f \in 0 .. 2 : set_channel_full_on(chan, b, f)
    \/ \E b \in BOOLEAN, f \in 0 .. 2 : set_channel_full_off(chan, b, f)
    \/ \E f \in 0 .. 1 : set_channel_on_off(chan, MaxCounter, 0, f)
    \/ \E f \in 0 .. 1 : get_channel_on_off_with_flags(chan, f)
    \/ \E k \in BOOLEAN, f \in 0 .. 1 : get_effective_pulse(chan, k, f)
    \/ \E be \in BOOLEAN, f \in 0 .. 2 : get_all_channels_on_off_with_flags(be, f)
    \/ \E f \in 0 .. 2 : set_all_channels_on_off_with_flags(Payload(0, 4951, BulkLen), f)
SpecFaults == Init /\ [][NextFaults]_vars

FlagKeepers ==
    {"set_channel_on", "set_channel_off", "set_channel_full_on", "set_channel_full_off"}

\* C16: in every call a failed bus step is the last one and the call returns
\* the transport error, which nothing else produces; when the high-byte read of
\* set_channel_on, set_channel_off, set_channel_full_on or set_channel_full_off
\* fails, no write is issued and the registers are as before.
C16_FailStop ==
    [][ LET log == last'.log
            n == Len(log)
        IN  /\ \A i \in 1 .. n : ~log[i].ok => (i = n /\ last'.result = "I2C")
            /\ last'.result = "I2C" => (n >= 1 /\ ~log[n].ok)
            /\ (last'.op \in FlagKeepers /\ n >= 1 /\ ~log[1].ok) =>
                    /\ log[1].call = "read_register"
                    /\ Writes(log) = {}
                    /\ mem' = mem
      ]_vars

\* set_channel_on whose read of the high byte failed.
C16_Witness ==
    /\ last.op = "set_channel_on" /\ last.result = "I2C"
    /\ Len(last.log) = 1 /\ last.log[1].call = "read_register" /\ ~last.log[1].ok

\* Every single-channel call, reads included
NextFrame == FlagSetters \/ ChannelCalls \/ PulseCalls
SpecFrame == Init /\ [][NextFrame]_vars

OnWriters == {"set_channel_on", "set_channel_full_on"}
OffWriters == {"set_channel_off", "set_channel_full_off"}
Readers ==
    {"get_channel_on", "get_channel_off", "get_channel_on_off_with_flags", "get_effective_pulse"}

\* C18: a call on channel c changes no register of another channel;
\* set_channel_on and set_channel_full_on change at most the ON register of c,
\* set_channel_off and set_channel_full_off at most its OFF register,
\* set_channel_on_off at most those two, and get_channel_on, get_channel_off,
\* get_channel_on_off_with_flags and get_effective_pulse change no register.
C18_OnlyTarget ==
    [][ LET c == last'.ch
            op == last'.op
        IN  (op \in OnWriters \cup OffWriters \cup Readers \cup {"set_channel_on_off"}) =>
                /\ mem' = [mem EXCEPT ![Cn_ON_L(c)] = mem'[Cn_ON_L(c)],
                                      ![Cn_ON_L(c) + 1] = mem'[Cn_ON_L(c) + 1],
                                      ![Cn_ON_L(c) + 2] = mem'[Cn_ON_L(c) + 2],
                                      ![Cn_ON_L(c) + 3] = mem'[Cn_ON_L(c) + 3]]
                /\ op \in OnWriters => OffReg(mem', c) = OffReg(mem, c)
                /\ op \in OffWriters => OnReg(mem', c) = OnReg(mem, c)
                /\ op \in Readers => mem' = mem
      ]_vars

\* set_channel_off(ch, 0) on a chip that started with (0x1ABC, 0xE123)
\* everywhere: only the OFF register of ch differs.
C18_Witness ==
    /\ last.op = "set_channel_off" /\ last.result = "Ok" /\ last.args = <<0>>
    /\ OffReg(mem, last.ch) = 0 /\ OnReg(mem, last.ch) = 6844
    /\ \A c \in Channels \ {last.ch} : OnReg(mem, c) = 6844 /\ OffReg(mem, c) = 57635

---------------------------------------------------------------------------
(* Two callers on one chip without mutual exclusion: caller A runs            *)
(* set_channel_on(chan, value), caller B runs set_channel_full_on(chan, flag),*)
(* and every bus transaction of either is a step of its own.                  *)

InitRace ==
    /\ \E p \in InitPairs :
        /\ mem = Image(p[1], p[2])
        /\ fullOn = [c \in Channels |-> Flag(p[1])]
        /\ fullOff = [c \in Channels |-> Flag(p[2])]
    /\ autoInc \in BOOLEAN
    /\ last = [op |-> "new", ch |-> 0, args |-> <<>>, flag |-> FALSE,
               result |-> "Ok", ret |-> <<>>, log |-> <<>>]
    /\ bulk = <<>>
    /\ chan \in TestChannels
    /\ \E v \in {0, MaxCounter}, b \in BOOLEAN :
        callers = [pcA |-> "read", pcB |-> "read", value |-> v, flag |-> b,
                   reg_hA |-> 0, reg_hB |-> 0, order |-> <<>>]

\* channels.rs:18  A reads the high byte
A_read ==
    /\ callers.pcA = "read"
    /\ callers' = [callers EXCEPT !.pcA = "write",
                                  !.reg_hA = read_register(mem, get_register_on(chan) + 1),
                                  !.order = Append(@, "rdA")]
    /\ UNCHANGED <<mem, autoInc, last, fullOn, fullOff, bulk, chan>>

\* channels.rs:19-20  A merges the flag it read and writes the double register
A_write ==
    /\ callers.pcA = "write"
    /\ LET reg == get_register_on(chan)
           merged == MergeFlag(callers.reg_hA, callers.value)
           out == Out(write_double_register(mem, reg, merged), autoInc, "Ok", <<>>,
                      <<Bus("read_register", reg + 1, <<callers.reg_hA>>, TRUE),
                        Bus("write_double_register", reg, <<merged>>, TRUE)>>)
       IN  /\ mem' = out.mem
           /\ last' = Call("set_channel_on", chan, <<callers.value>>, FALSE, out)
    /\ callers' = [callers EXCEPT !.pcA = "done", !.order = Append(@, "wrA")]
    /\ UNCHANGED <<autoInc, fullOn, fullOff, bulk, chan>>

\* channels.rs:60  B reads the high byte
B_read ==
    /\ callers.pcB = "read"
    /\ callers' = [callers EXCEPT !.pcB = "write",
                                  !.reg_hB = read_register(mem, get_register_on(chan) + 1),
                                  !.order = Append(@, "rdB")]
    /\ UNCHANGED <<mem, autoInc, last, fullOn, fullOff, bulk, chan>>

\* channels.rs:61-67  B writes the high byte if the flag it read differs
B_write ==
    /\ callers.pcB = "write"
    /\ LET register == get_register_on(chan) + 1
           b == FlagByte(callers.reg_hB, callers.flag)
           rd == Bus("read_register", register, <<callers.reg_hB>>, TRUE)
           out == IF b = <<>>
                  THEN Out(mem, autoInc, "Ok", <<>>, <<rd>>)
                  ELSE Out(ChipWrite(mem, autoInc, <<register>> \o b), autoInc, "Ok", <<>>,
                           <<rd, Bus("i2c.write", register, <<register>> \o b, TRUE)>>)
       IN  /\ mem' = out.mem
           /\ last' = Call("set_channel_full_on", chan, <<>>, callers.flag, out)
           /\ callers' = [callers EXCEPT !.pcB = "done",
                                         !.order = Append(@, IF b = <<>> THEN "nopB" ELSE "wrB")]
    /\ fullOn' = [fullOn EXCEPT ![chan] = callers.flag]
    /\ UNCHANGED <<autoInc, fullOff, bulk, chan>>

NextRace == A_read \/ A_write \/ B_read \/ B_write
SpecRace == InitRace /\ [][NextRace]_vars

\* Where a step stands in the order of the bus steps taken
Pos(x) == CHOOSE i \in 1 .. Len(callers.order) : callers.order[i] = x
Took(x) == \E i \in 1 .. Len(callers.order) : callers.order[i] = x
\* B's write landed between A's read and A's write
Between == Took("wrB") /\ Pos("rdA") < Pos("wrB") /\ Pos("wrB") < Pos("wrA")

\* C17: when set_channel_on and set_channel_full_on(b) of two callers have both
\* returned, bit 12 of the ON register differs from b exactly when B's flag
\* write landed between A's high-byte read and A's write, and then it is the
\* stale flag A read; in every other order, each call running as a unit
\* included, bit 12 is b.
C17_LostUpdate ==
    (callers.pcA = "done" /\ callers.pcB = "done") =>
        /\ (Flag(OnReg(mem, chan)) # callers.flag) <=> Between
        /\ Between => (Flag(OnReg(mem, chan)) <=> (BitAnd(callers.reg_hA, 16) # 0))

\* The lost update: A read, B read and wrote, A wrote back the flag it had read.
C17_Witness ==
    /\ callers.order = <<"rdA", "rdB", "wrB", "wrA">>
    /\ callers.flag /\ ~Flag(OnReg(mem, chan))
    /\ Counter(OnReg(mem, chan)) = callers.value

===========================================================================
